---------------------------- MODULE Spec2Model ----------------------------
(***************************************************************************)
(* Model of the Superstore ETL (src/etl.py): the CSV is read, duplicate    *)
(* (Order ID, Product ID) line items are merged, the dimension tables are  *)
(* loaded and then the four fact tables.                                   *)
(*                                                                         *)
(* Natural keys (order ids, product ids, names, ...) are small integers so *)
(* that the sort order pandas' groupby imposes can be computed.  Sales,    *)
(* Profit and Quantity are integers; Discount is an exact fraction or one  *)
(* of the IEEE specials a division by zero produces.                       *)
(***************************************************************************)
EXTENDS Integers, Sequences, FiniteSets, TLC

VARIABLES
    pc,         \* position of the run in __main__ and the function it is in
    connected,  \* what connection.is_connected() answers
    df_raw,     \* the rows load_data() read from the CSV
    df,         \* the cleaned rows preprocess_merge_duplicate_products returned
    db,         \* the tables: each a sequence of rows, a row's id is its position
    committed,  \* per table, how many of its rows are committed
    cur,        \* index of the next candidate of the loop that is running
    counts,     \* per fact loader, its item_count/order_count/inserted_count
    skipped,    \* per fact loader, its skipped_count
    faults,     \* datastore errors raised so far in this run
    log         \* the messages logged so far

vars == <<pc, connected, df_raw, df, db, committed, cur, counts, skipped, faults, log>>

-----------------------------------------------------------------------------
(* Bounds of the model *)

\* longest CSV given to the deduplicator alone
MaxRows == 3

\* longest CSV given to a whole run
MaxItems == 2

\* most datastore errors (mysql.connector.Error) raised in one run
MaxFaults == 1

-----------------------------------------------------------------------------
(* Floating point values: an exact fraction n/d, or inf, -inf, nan *)

Abs(x) == IF x < 0 THEN -x ELSE x

RECURSIVE GCD(_, _)
GCD(a, b) == IF b = 0 THEN a ELSE GCD(b, a % b)

Fin(n, d) ==
    LET g == GCD(Abs(n), Abs(d))
        s == IF d < 0 THEN -1 ELSE 1
    IN  [kind |-> "fin", n |-> (s * n) \div g, d |-> (s * d) \div g]

Inf == [kind |-> "inf", n |-> 1, d |-> 0]
NInf == [kind |-> "ninf", n |-> -1, d |-> 0]
NaN == [kind |-> "nan", n |-> 0, d |-> 0]

IsFinite(x) == x.kind = "fin"

\* a cell of a numeric column that holds text: float() of it raises ValueError
NonNumeric == [kind |-> "str", n |-> 0, d |-> 0]

IsNumeric(x) == x.kind # "str"

\* float * int
FMulInt(x, k) ==
    CASE x.kind = "fin" -> Fin(x.n * k, x.d)
      [] x.kind = "nan" -> NaN
      [] OTHER -> IF k = 0 THEN NaN
                  ELSE IF (k > 0) = (x.kind = "inf") THEN Inf ELSE NInf

\* float / int as numpy divides: x/0 is inf, -inf or nan, never an exception
FDivInt(x, k) ==
    CASE x.kind # "fin" -> IF k = 0 THEN NaN ELSE FMulInt(x, k)
      [] k # 0 -> Fin(x.n, x.d * k)
      [] x.n > 0 -> Inf
      [] x.n < 0 -> NInf
      [] OTHER -> NaN

FAdd(x, y) ==
    CASE x.kind = "nan" \/ y.kind = "nan" -> NaN
      [] x.kind = "fin" /\ y.kind = "fin" -> Fin(x.n * y.d + y.n * x.d, x.d * y.d)
      [] x.kind = "fin" -> y
      [] y.kind = "fin" -> x
      [] x.kind = y.kind -> x
      [] OTHER -> NaN

\* pandas Series.sum(): skipna=True drops the NaN terms, an empty sum is 0.0
RECURSIVE FSumFrom(_, _)
FSumFrom(s, acc) ==
    IF s = <<>> THEN acc
    ELSE FSumFrom(Tail(s), IF Head(s).kind = "nan" THEN acc ELSE FAdd(acc, Head(s)))

FSum(s) == FSumFrom(s, Fin(0, 1))

\* sum of an integer column
RECURSIVE ISum(_)
ISum(s) == IF s = <<>> THEN 0 ELSE Head(s) + ISum(Tail(s))

Column(rows, f) == [i \in DOMAIN rows |-> rows[i][f]]

-----------------------------------------------------------------------------
(* The CSV rows the model draws its inputs from *)

\* "12/5/2016": the CSV writes a date as month/day/year
Mdy(y, m, d) == <<"mdy", m, d, y>>

Dates == << Mdy(2016, 12, 5), Mdy(2016, 12, 20), Mdy(2017, 1, 5), Mdy(2017, 1, 9) >>

\* (Quantity, Sales, Discount, Profit) of a line item
Measures ==
    << [Quantity |-> 0,  Sales |-> 10, Discount |-> Fin(1, 2), Profit |-> -3],
       [Quantity |-> 1,  Sales |-> 20, Discount |-> Fin(0, 1), Profit |-> 5],
       [Quantity |-> 2,  Sales |-> 30, Discount |-> Fin(1, 2), Profit |-> -2],
       [Quantity |-> 3,  Sales |-> 15, Discount |-> Fin(1, 5), Profit |-> 7],
       [Quantity |-> -1, Sales |-> 5,  Discount |-> Fin(1, 5), Profit |-> -1],
       [Quantity |-> 1,  Sales |-> 20, Discount |-> NonNumeric, Profit |-> 5],
       [Quantity |-> 1,  Sales |-> 10, Discount |-> Fin(1, 1), Profit |-> -10],
       [Quantity |-> 1,  Sales |-> -10, Discount |-> Fin(1, 5), Profit |-> -4] >>

\* the profiles whose measures are all numbers
NumericMeasures == {m \in DOMAIN Measures : IsNumeric(Measures[m].Discount)}

MkRow(oid, pid, cust, place, datei, meas) ==
    [OrderID |-> oid, ProductID |-> pid,
     CustomerID |-> cust, CustomerName |-> cust, Segment |-> 1,
     OrderDate |-> Dates[datei], ShipDate |-> Dates[datei + 1], ShipMode |-> cust,
     Country |-> 1, Region |-> place, State |-> place, City |-> place,
     PostalCode |-> 10 * place,
     Category |-> pid, SubCategory |-> pid, ProductName |-> pid,
     Quantity |-> Measures[meas].Quantity, Sales |-> Measures[meas].Sales,
     Discount |-> Measures[meas].Discount, Profit |-> Measures[meas].Profit]

\* rows for the deduplicator: three (Order ID, Product ID) pairs, every measure
\* profile; the customer differs with the profile, so the rows of one pair differ
\* in a field the merge copies
DedupPool ==
    { MkRow(k[1], k[2], 1 + (m % 2), 1, 1, m) :
        k \in {<<1, 1>>, <<1, 2>>, <<2, 1>>}, m \in NumericMeasures }

\* rows for a whole run: orders 1 and 2 of two products, order 3 of one. An
\* order has its date; orders 1 and 3 are of customer 1 in place 1, a month
\* apart, order 2 is of customer 2 in place 2; the item of order 3 is a sale
\* taken back, of a negative amount, its product 1 under another name. Two more
\* rows: one of order 2 has text for its Discount, one of order 1 is discounted
\* in full and has the customer, the place and the dates of order 2
RowPool ==
    { [MkRow(k[1], k[2], 1 + ((k[1] + 1) % 2), 1 + ((k[1] + 1) % 2), k[1],
             IF k[1] = 3 THEN 8 ELSE k[2] + 1)
          EXCEPT !.ProductName = IF k[1] = 3 THEN 3 ELSE @] :
        k \in {<<1, 1>>, <<1, 2>>, <<2, 1>>, <<2, 2>>, <<3, 1>>} }
        \cup { MkRow(2, 1, 2, 2, 2, 6), MkRow(1, 1, 2, 2, 2, 7) }

SeqsUpTo(S, n) == UNION { [1..k -> S] : k \in 1..n }

-----------------------------------------------------------------------------
(* preprocess_merge_duplicate_products *)

KeyOf(row) == <<row.OrderID, row.ProductID>>

\* lexicographic order of tuples of integers of one length: groupby sorts its keys
RECURSIVE TupleLess(_, _)
TupleLess(a, b) ==
    /\ a # <<>>
    /\ \/ Head(a) < Head(b)
       \/ Head(a) = Head(b) /\ TupleLess(Tail(a), Tail(b))

RECURSIVE SortKeys(_)
SortKeys(S) ==
    IF S = {} THEN <<>>
    ELSE LET least == CHOOSE k \in S : \A o \in S : o = k \/ TupleLess(k, o)
         IN  <<least>> \o SortKeys(S \ {least})

\* combination_counts: the size of each (Order ID, Product ID) group
GroupSize(rows, key) == Cardinality({i \in DOMAIN rows : KeyOf(rows[i]) = key})

\* duplicates: the combinations that appear more than once, in groupby's order
duplicates(rows) ==
    SortKeys({KeyOf(rows[i]) : i \in DOMAIN rows} \cap
             {k \in {KeyOf(rows[i]) : i \in DOMAIN rows} : GroupSize(rows, k) > 1})

\* processed_df[filter_condition]
duplicate_rows(rows, key) == SelectSeq(rows, LAMBDA r : KeyOf(r) = key)

\* (a slip that leaves the merged group's rows in processed_df)
RemoveGroupKeepsRows(rows, key) == rows

\* processed_df[~filter_condition]
RemoveGroup(rows, key) == SelectSeq(rows, LAMBDA r : KeyOf(r) # key)

total_quantity(rows) == ISum(Column(rows, "Quantity"))

\* (a slip that keeps the template row's Sales)
total_sales_first_only(rows) == rows[1].Sales

total_sales(rows) == ISum(Column(rows, "Sales"))

total_profit(rows) == ISum(Column(rows, "Profit"))

\* (a slip that averages the discounts without weighting them)
weighted_discount_unweighted(rows) ==
    FDivInt(FSum(Column(rows, "Discount")), Len(rows))

\* (Discount * Quantity / total_quantity).sum()
weighted_discount(rows) ==
    FSum([i \in DOMAIN rows |->
            FDivInt(FMulInt(rows[i].Discount, rows[i].Quantity), total_quantity(rows))])

\* the first row of the group with the four measures replaced
\* (a slip that takes the last row of the group as the template)
merged_row_of_last_row(rows) ==
    [rows[Len(rows)] EXCEPT !.Quantity = total_quantity(rows),
                            !.Sales = total_sales(rows),
                            !.Discount = weighted_discount(rows),
                            !.Profit = total_profit(rows)]

merged_row(rows) ==
    [rows[1] EXCEPT !.Quantity = total_quantity(rows),
                    !.Sales = total_sales(rows),
                    !.Discount = weighted_discount(rows),
                    !.Profit = total_profit(rows)]

\* the loop over duplicates, then the concat of what is left with the merged rows
RECURSIVE MergeLoop(_, _, _)
MergeLoop(processed_df, dups, merged_rows) ==
    IF dups = <<>> THEN processed_df \o merged_rows
    ELSE MergeLoop(RemoveGroup(processed_df, Head(dups)),
                   Tail(dups),
                   Append(merged_rows, merged_row(duplicate_rows(processed_df, Head(dups)))))

\* (a slip that returns the merged rows alone)
preprocess_merged_rows_only(rows) ==
    IF Len(duplicates(rows)) > 0
    THEN SelectSeq(MergeLoop(rows, duplicates(rows), <<>>),
                   LAMBDA r : GroupSize(rows, KeyOf(r)) > 1)
    ELSE rows

preprocess_merge_duplicate_products(rows) ==
    IF Len(duplicates(rows)) > 0 THEN MergeLoop(rows, duplicates(rows), <<>>) ELSE rows

\* read_csv gives a Discount column with a text cell as strings throughout, and
\* Discount * Quantity / total_quantity of strings raises TypeError (str / int)
WeightedDiscountRaises(rows) ==
    /\ Len(duplicates(rows)) > 0
    /\ \E i \in DOMAIN rows : ~IsNumeric(rows[i].Discount)

-----------------------------------------------------------------------------
(* Helpers for the dimension and fact loaders *)

\* what dict.get answers for a missing key; AUTO_INCREMENT ids start at 1
None == 0

Range(s) == {s[i] : i \in DOMAIN s}

\* drop_duplicates(): the first occurrence of each value, in order
drop_duplicates(s) ==
    LET firsts == {i \in DOMAIN s : \A j \in 1..(i - 1) : s[j] # s[i]}
    IN  [k \in 1..Cardinality(firsts) |->
            s[CHOOSE i \in firsts : Cardinality({j \in firsts : j <= i}) = k]]

\* {value: idx + 1 for idx, value in enumerate(values)}[v]
IndexOf(s, v) == CHOOSE i \in DOMAIN s : s[i] = v

\* pd.to_datetime("12/5/2016"): the date as (year, month, day)
to_datetime(s) == <<s[4], s[2], s[3]>>

\* .strftime("%Y-%m-%d") of a date, of the dataframe or of a DATE column
strftime(d) == <<"%Y-%m-%d", d[1], d[2], d[3]>>

\* str(row["Postal Code"])
str(v) == <<"str", v>>

\* (a slip that answers the id after the row's)
Lookup_next_id(keys, k) ==
    LET hits == {i \in DOMAIN keys : keys[i] = k}
    IN  IF hits = {} THEN None ELSE 1 + CHOOSE i \in hits : \A j \in hits : j <= i

\* {row[key]: row[id] for row in cursor.fetchall()}.get(k): the id of the last
\* row of the table with that key, None without one
Lookup(keys, k) ==
    LET hits == {i \in DOMAIN keys : keys[i] = k}
    IN  IF hits = {} THEN None ELSE CHOOSE i \in hits : \A j \in hits : j <= i

\* (a slip that tests the first key only)
all_first_key_only(keys) == keys[1] # None

\* all([...]): no key is None (or 0)
all(keys) == \A i \in DOMAIN keys : keys[i] # None

-----------------------------------------------------------------------------
(* create_level_mappings and the rows each dimension loader inserts *)

\* (a slip that numbers the values from 0)
sub_category_mapping_from_zero(rows, v) ==
    IndexOf(drop_duplicates(Column(rows, "SubCategory")), v) - 1

sub_category_mapping(rows, v) == IndexOf(drop_duplicates(Column(rows, "SubCategory")), v)

country_mapping(rows, v) == IndexOf(drop_duplicates(Column(rows, "Country")), v)

city_mapping(rows, city, state) ==
    IndexOf(drop_duplicates([i \in DOMAIN rows |-> <<rows[i].City, rows[i].State>>]),
            <<city, state>>)

\* all_dates = sorted(set(order_dates) | set(ship_dates))
\* (a slip that takes the order dates only)
all_dates_order_dates_only(rows) ==
    SortKeys({to_datetime(rows[i].OrderDate) : i \in DOMAIN rows})

all_dates(rows) ==
    SortKeys({to_datetime(rows[i].OrderDate) : i \in DOMAIN rows} \cup
             {to_datetime(rows[i].ShipDate) : i \in DOMAIN rows})

\* year_mapping: sequential ids of the sorted years
year_mapping(rows, y) ==
    IndexOf(SortKeys({<<all_dates(rows)[i][1]>> : i \in DOMAIN all_dates(rows)}), <<y>>)

\* calendar_df: one row per date
calendar_df(rows) ==
    [i \in DOMAIN all_dates(rows) |->
        [full_date |-> all_dates(rows)[i],
         year_id |-> year_mapping(rows, all_dates(rows)[i][1]),
         year_number |-> all_dates(rows)[i][1],
         month_number |-> all_dates(rows)[i][2],
         day_number |-> all_dates(rows)[i][3]]]

\* month_data without its drop_duplicates: one row per date
CalendarMonthRows_per_date(rows) ==
    [i \in DOMAIN calendar_df(rows) |->
        [calendar_month_number |-> calendar_df(rows)[i].month_number,
         year_id |-> calendar_df(rows)[i].year_id,
         year_number |-> calendar_df(rows)[i].year_number]]

\* month_data: the distinct (year_id, year_number, month_number) of calendar_df
CalendarMonthRows(rows) ==
    drop_duplicates([i \in DOMAIN calendar_df(rows) |->
        [calendar_month_number |-> calendar_df(rows)[i].month_number,
         year_id |-> calendar_df(rows)[i].year_id,
         year_number |-> calendar_df(rows)[i].year_number]])

\* month_mapping[(year_id, month_number)], read back from CalendarMonth
month_mapping(d, year_id, month_number) ==
    Lookup([i \in DOMAIN d.CalendarMonth |-> <<d.CalendarMonth[i].year_id, d.CalendarMonth[i].calendar_month_number>>],
           <<year_id, month_number>>)

CalendarRows(rows, d) ==
    [i \in DOMAIN calendar_df(rows) |->
        [full_date |-> calendar_df(rows)[i].full_date,
         year_id |-> calendar_df(rows)[i].year_id,
         year_number |-> calendar_df(rows)[i].year_number,
         month_id |-> month_mapping(d, calendar_df(rows)[i].year_id,
                                    calendar_df(rows)[i].month_number),
         month_number |-> calendar_df(rows)[i].month_number,
         day_number |-> calendar_df(rows)[i].day_number]]

CustomerRows(rows) ==
    drop_duplicates([i \in DOMAIN rows |->
        [customer_code |-> rows[i].CustomerID,
         customer_name |-> rows[i].CustomerName,
         segment |-> rows[i].Segment]])

RegionRows(rows) ==
    drop_duplicates([i \in DOMAIN rows |->
        [region_name |-> rows[i].Region,
         country_id |-> country_mapping(rows, rows[i].Country),
         country_name |-> rows[i].Country]])

\* region_mapping.get(name), read back from Region
region_mapping(d, name) == Lookup([i \in DOMAIN d.Region |-> d.Region[i].region_name], name)

StateRows(rows, d) ==
    drop_duplicates([i \in DOMAIN rows |->
        [state_name |-> rows[i].State,
         region_id |-> region_mapping(d, rows[i].Region),
         region_name |-> rows[i].Region,
         country_id |-> country_mapping(rows, rows[i].Country),
         country_name |-> rows[i].Country]])

\* state_mapping.get(name), read back from State
state_mapping(d, name) == Lookup([i \in DOMAIN d.State |-> d.State[i].state_name], name)

\* the Location.postal_code column is a character column: it answers the text
\* of the number it was given
PostalCodeColumn(v) == str(v)

LocationRows(rows, d) ==
    drop_duplicates([i \in DOMAIN rows |->
        [location_code |-> rows[i].PostalCode,
         country_id |-> country_mapping(rows, rows[i].Country),
         country_name |-> rows[i].Country,
         state_id |-> state_mapping(d, rows[i].State),
         state_name |-> rows[i].State,
         city_id |-> city_mapping(rows, rows[i].City, rows[i].State),
         city_name |-> rows[i].City,
         postal_code |-> PostalCodeColumn(rows[i].PostalCode),
         region_id |-> region_mapping(d, rows[i].Region),
         region_name |-> rows[i].Region]])

ShippingRows(rows) ==
    drop_duplicates([i \in DOMAIN rows |-> [ship_mode |-> rows[i].ShipMode]])

CategoryRows(rows) ==
    drop_duplicates([i \in DOMAIN rows |-> [category_name |-> rows[i].Category]])

\* category_mapping.get(name), read back from Category
category_mapping(d, name) == Lookup([i \in DOMAIN d.Category |-> d.Category[i].category_name], name)

ProductRows(rows, d) ==
    drop_duplicates([i \in DOMAIN rows |->
        [product_code |-> rows[i].ProductID,
         product_name |-> rows[i].ProductName,
         category_id |-> category_mapping(d, rows[i].Category),
         category_name |-> rows[i].Category,
         sub_category_id |-> sub_category_mapping(rows, rows[i].SubCategory),
         sub_category_name |-> rows[i].SubCategory]])

\* (a slip that fills State before Region and Product before Category)
DimOrder_children_first ==
    <<"CalendarMonth", "Calendar", "Customer", "State", "Region", "Location",
      "Shipping", "Product", "Category">>

\* the dimension tables in the order load_dimension_tables fills them
DimOrder == <<"CalendarMonth", "Calendar", "Customer", "Region", "State", "Location",
              "Shipping", "Category", "Product">>

\* the rows the loader of table t inserts, given the tables as they are
DimRows(t, rows, d) ==
    CASE t = "CalendarMonth" -> CalendarMonthRows(rows)
      [] t = "Calendar" -> CalendarRows(rows, d)
      [] t = "Customer" -> CustomerRows(rows)
      [] t = "Region" -> RegionRows(rows)
      [] t = "State" -> StateRows(rows, d)
      [] t = "Location" -> LocationRows(rows, d)
      [] t = "Shipping" -> ShippingRows(rows)
      [] t = "Category" -> CategoryRows(rows)
      [] t = "Product" -> ProductRows(rows, d)

-----------------------------------------------------------------------------
(* The dimension keys and the measures of the fact loaders *)

\* batch sizes of the commits inside the loops
ItemBatch == 500
OrdersBatch == 200
OrderMBatch == 50

\* only the first skipped records are logged
MaxSkipWarnings == 5

customer_mapping(d, code) == Lookup([i \in DOMAIN d.Customer |-> d.Customer[i].customer_code], code)

product_mapping(d, code) == Lookup([i \in DOMAIN d.Product |-> d.Product[i].product_code], code)

calendar_mapping(d, day) == Lookup([i \in DOMAIN d.Calendar |-> strftime(d.Calendar[i].full_date)], day)

location_mapping(d, postal_code, city) ==
    Lookup([i \in DOMAIN d.Location |-> <<d.Location[i].postal_code, d.Location[i].city_name>>], <<postal_code, city>>)

shipping_mapping(d, mode) == Lookup([i \in DOMAIN d.Shipping |-> d.Shipping[i].ship_mode], mode)

calendar_month_mapping(d, year, month) ==
    Lookup([i \in DOMAIN d.CalendarMonth |-> <<d.CalendarMonth[i].year_number, d.CalendarMonth[i].calendar_month_number>>],
           <<year, month>>)

\* Python's sum of floats by +=: a NaN stays
RECURSIVE PySumFrom(_, _)
PySumFrom(s, acc) == IF s = <<>> THEN acc ELSE PySumFrom(Tail(s), FAdd(acc, Head(s)))

\* (a slip that takes the discounted share of the sales for the lost value)
lost_value_sales_times_discount(sales, discount) ==
    IF discount.kind = "fin" THEN Fin(sales * discount.n, discount.d) ELSE Fin(0, 1)

\* if discount < 1: sales / (1 - discount) - sales, else 0
lost_value(sales, discount) ==
    CASE discount.kind = "fin" /\ discount.n < discount.d ->
            FAdd(Fin(sales * discount.d, discount.d - discount.n), Fin(-sales, 1))
      [] discount.kind = "ninf" -> Fin(-sales, 1)
      [] OTHER -> Fin(0, 1)

\* Item: the four keys of a line item
ItemKeys(row, d) ==
    << customer_mapping(d, row.CustomerID),
       product_mapping(d, row.ProductID),
       calendar_mapping(d, strftime(to_datetime(row.OrderDate))),
       location_mapping(d, str(row.PostalCode), row.City) >>

ItemFact(row, d) ==
    [customer_id |-> ItemKeys(row, d)[1],
     location_id |-> ItemKeys(row, d)[4],
     calendar_id |-> ItemKeys(row, d)[3],
     product_id |-> ItemKeys(row, d)[2],
     order_code |-> row.OrderID,
     quantity |-> row.Quantity,
     sales |-> row.Sales,
     discount |-> row.Discount,
     lost_value |-> lost_value(row.Sales, row.Discount),
     profit |-> row.Profit]

\* Orders: df.groupby("Order ID"), the groups in the order of their ids
order_groups(rows) == SortKeys({<<rows[i].OrderID>> : i \in DOMAIN rows})

\* (a slip that takes the order's first line item for the whole order)
order_data_first_item_only(rows, order_id) ==
    SubSeq(SelectSeq(rows, LAMBDA r : r.OrderID = order_id), 1, 1)

\* (a slip that takes the rows of the order last first)
order_data_reversed(rows, order_id) ==
    LET data == SelectSeq(rows, LAMBDA r : r.OrderID = order_id)
    IN  [i \in DOMAIN data |-> data[Len(data) + 1 - i]]

order_data(rows, order_id) == SelectSeq(rows, LAMBDA r : r.OrderID = order_id)

\* the five keys, of the first row of the order
OrdersKeys(first_row, d) ==
    << customer_mapping(d, first_row.CustomerID),
       calendar_mapping(d, strftime(to_datetime(first_row.OrderDate))),
       calendar_mapping(d, strftime(to_datetime(first_row.ShipDate))),
       location_mapping(d, str(first_row.PostalCode), first_row.City),
       shipping_mapping(d, first_row.ShipMode) >>

OrdersFact(items, d) ==
    [order_calendar_id |-> OrdersKeys(items[1], d)[2],
     shipping_calendar_id |-> OrdersKeys(items[1], d)[3],
     customer_id |-> OrdersKeys(items[1], d)[1],
     location_id |-> OrdersKeys(items[1], d)[4],
     shipping_id |-> OrdersKeys(items[1], d)[5],
     order_code |-> items[1].OrderID,
     sales_order |-> ISum(Column(items, "Sales")),
     quantity_order |-> ISum(Column(items, "Quantity")),
     lost_value_order |->
        PySumFrom([i \in DOMAIN items |-> lost_value(items[i].Sales, items[i].Discount)],
                  Fin(0, 1)),
     profit_order |-> ISum(Column(items, "Profit"))]

\* OrderM: the (year, month, State) of a line item's order date
MonthStateOf(row) ==
    <<to_datetime(row.OrderDate)[1], to_datetime(row.OrderDate)[2], row.State>>

\* grouped_data of load_order_m_fact_table: its keys, sorted
order_m_groups(rows) == SortKeys({MonthStateOf(rows[i]) : i \in DOMAIN rows})

order_m_data(rows, key) == SelectSeq(rows, LAMBDA r : MonthStateOf(r) = key)

\* (a slip that accumulates every row under every key)
monthly_lost_value_of_all_rows(rows, key) ==
    PySumFrom([i \in DOMAIN rows |-> lost_value(rows[i].Sales, rows[i].Discount)], Fin(0, 1))

\* monthly_lost_value[key]
monthly_lost_value(rows, key) ==
    PySumFrom([i \in DOMAIN order_m_data(rows, key) |->
                  lost_value(order_m_data(rows, key)[i].Sales,
                             order_m_data(rows, key)[i].Discount)],
              Fin(0, 1))

OrderMKeys(key, d) ==
    << calendar_month_mapping(d, key[1], key[2]), state_mapping(d, key[3]) >>

OrderMFact(rows, key, d) ==
    [calendar_month_id |-> OrderMKeys(key, d)[1],
     state_id |-> OrderMKeys(key, d)[2],
     sales_month |-> ISum(Column(order_m_data(rows, key), "Sales")),
     quantity_month |-> ISum(Column(order_m_data(rows, key), "Quantity")),
     lost_value_month |-> monthly_lost_value(rows, key),
     profit_month |-> ISum(Column(order_m_data(rows, key), "Profit"))]

\* ProductPerformance: the (Category, State, year, month) of a line item
PerformanceKeyOf(row) ==
    <<row.Category, row.State, to_datetime(row.OrderDate)[1], to_datetime(row.OrderDate)[2]>>

\* grouped_data of load_product_performance_fact_table: its keys, sorted
performance_groups(rows) == SortKeys({PerformanceKeyOf(rows[i]) : i \in DOMAIN rows})

\* grouped_data after the cumulative-profit loop: the loop adds the running total
\* to the row iterrows() handed it, a copy, so grouped_data has the columns it had
performance_grouped_data(rows) ==
    [i \in DOMAIN performance_groups(rows) |->
        LET key == performance_groups(rows)[i]
            items == SelectSeq(rows, LAMBDA r : PerformanceKeyOf(r) = key)
        IN  [Category |-> key[1], State |-> key[2], year |-> key[3], month |-> key[4],
             Sales |-> ISum(Column(items, "Sales")),
             Profit |-> ISum(Column(items, "Profit")),
             Quantity |-> ISum(Column(items, "Quantity"))]]

\* grouped_data[:, ['cumulative_profit']] in the log call before the insert loop:
\* a DataFrame takes no (slice, list) key, whatever its rows are
CumulativeProfitLogRaises(grouped_data) == TRUE

-----------------------------------------------------------------------------
(* The state before the run, and the deduplicator on its own *)

Tables == {"CalendarMonth", "Calendar", "Customer", "Region", "State", "Location",
           "Shipping", "Category", "Product",
           "Item", "Orders", "OrderM", "ProductPerformance"}

Loaders == {"Item", "Orders", "OrderM", "ProductPerformance"}

Idle ==
    /\ connected = FALSE
    /\ df = <<>>
    /\ db = [t \in Tables |-> <<>>]
    /\ committed = [t \in Tables |-> 0]
    /\ cur = 0
    /\ counts = [l \in Loaders |-> 0]
    /\ skipped = [l \in Loaders |-> 0]
    /\ faults = 0
    /\ log = {}

\* df = preprocess_merge_duplicate_products(df_raw)
Preprocess ==
    /\ pc = "preprocess"
    /\ IF WeightedDiscountRaises(df_raw)
       THEN /\ pc' = "crashed"
            /\ UNCHANGED df
       ELSE /\ df' = preprocess_merge_duplicate_products(df_raw)
            /\ pc' = "load_dimension_tables"
    /\ UNCHANGED <<connected, df_raw, db, committed, cur, counts, skipped, faults, log>>

InitDedup ==
    /\ pc = "preprocess"
    /\ df_raw \in SeqsUpTo(DedupPool, MaxRows)
    /\ Idle

SpecDedup == InitDedup /\ [][Preprocess]_vars

-----------------------------------------------------------------------------
(* The run: __main__ *)

Msg(text) == <<text, "">>

Commit(d) == [t \in Tables |-> Len(d[t])]

\* connection = connect()
Connect ==
    /\ pc = "connect"
    /\ \/ /\ connected' = TRUE
          /\ pc' = "load_data"
          /\ UNCHANGED <<faults, log>>
       \/ \* the datastore is not reached: the Error is logged, and the return of
          \* the connection that was never assigned raises UnboundLocalError
          /\ faults < MaxFaults
          /\ faults' = faults + 1
          /\ log' = log \cup {Msg("Error connecting to MySQL")}
          /\ pc' = "crashed"
          /\ UNCHANGED connected
       \/ \* the connection is made and lost: SELECT DATABASE() raises the Error
          /\ faults < MaxFaults
          /\ faults' = faults + 1
          /\ log' = log \cup {Msg("Error connecting to MySQL")}
          /\ connected' = FALSE
          /\ pc' = "load_data"
    /\ UNCHANGED <<df_raw, df, db, committed, cur, counts, skipped>>

\* df_raw = load_data()
LoadData ==
    /\ pc = "load_data"
    /\ df_raw' \in SeqsUpTo(RowPool, MaxItems)
    /\ pc' = "preprocess"
    /\ UNCHANGED <<connected, df, db, committed, cur, counts, skipped, faults, log>>

\* load_dimension_tables: the connection check
LoadDimensionTables ==
    /\ pc = "load_dimension_tables"
    /\ IF connected
       THEN /\ log' = log \cup {Msg("Loading dimension tables...")}
            /\ pc' = DimOrder[1]
       ELSE /\ pc' = "load_fact_tables"
            /\ UNCHANGED log
    /\ UNCHANGED <<connected, df_raw, df, db, committed, cur, counts, skipped, faults>>

\* where the run goes after the dimension table t
AfterDim(t) ==
    IF IndexOf(DimOrder, t) = Len(DimOrder) THEN "load_fact_tables"
    ELSE DimOrder[IndexOf(DimOrder, t) + 1]

\* one dimension table: its rows are inserted and committed; or the datastore
\* raises an Error at the k+1st statement, which load_dimension_tables catches and
\* logs, and __main__ goes on
LoadDimension(t) ==
    /\ pc = t
    /\ \/ /\ db' = [db EXCEPT ![t] = @ \o DimRows(t, df, db)]
          /\ committed' = Commit(db')
          /\ pc' = AfterDim(t)
          /\ log' = log \cup {<<"Loaded records into dimension", t>>} \cup
                    IF AfterDim(t) = "load_fact_tables"
                    THEN {Msg("All dimension tables loaded successfully!")} ELSE {}
          /\ UNCHANGED <<connected, faults>>
       \/ /\ faults < MaxFaults
          /\ faults' = faults + 1
          /\ \E k \in 0..Len(DimRows(t, df, db)) :
                db' = [db EXCEPT ![t] = @ \o SubSeq(DimRows(t, df, db), 1, k)]
          /\ connected' \in BOOLEAN
          /\ log' = log \cup {Msg("Error loading dimension tables")}
          /\ pc' = "load_fact_tables"
          /\ UNCHANGED committed
    /\ UNCHANGED <<df_raw, df, cur, counts, skipped>>

\* load_calendar_dimension
LoadCalendarMonth == LoadDimension("CalendarMonth")
LoadCalendar == LoadDimension("Calendar")

\* load_customer_dimension
LoadCustomer == LoadDimension("Customer")

\* load_geography_dimensions
LoadRegion == LoadDimension("Region")
LoadState == LoadDimension("State")
LoadLocation == LoadDimension("Location")

\* load_shipping_dimension
LoadShipping == LoadDimension("Shipping")

\* load_product_dimensions
LoadCategory == LoadDimension("Category")
LoadProduct == LoadDimension("Product")

\* load_fact_tables: the connection check
LoadFactTables ==
    /\ pc = "load_fact_tables"
    /\ IF connected
       THEN /\ log' = log \cup {<<"Loading fact table...", "Item">>}
            /\ pc' = "load_item_fact_table"
       ELSE /\ pc' = "close"
            /\ UNCHANGED log
    /\ UNCHANGED <<connected, df_raw, df, db, committed, cur, counts, skipped, faults>>

\* the head of a fact loader: the dimension keys are read; an Error of a SELECT
\* leaves the loader and is caught by load_fact_tables
FactStart(at, loop) ==
    /\ pc = at
    /\ \/ /\ pc' = loop
          /\ cur' = 1
          /\ UNCHANGED <<faults, log>>
       \/ /\ faults < MaxFaults
          /\ faults' = faults + 1
          /\ log' = log \cup {Msg("Error loading fact tables")}
          /\ pc' = "close"
          /\ UNCHANGED cur
    /\ UNCHANGED <<connected, df_raw, df, db, committed, counts, skipped>>

\* (a slip that commits after every row)
BatchFull_every_row(count, batch) == TRUE

\* if item_count % 500 == 0: the count of inserts has reached a multiple of the
\* batch size
BatchFull(count, batch) == count % batch = 0

\* one turn of a fact loader's loop, for a candidate with these keys and this row
FactRow(loop, l, n, keys, raises, row, batch) ==
    /\ pc = loop
    /\ cur <= n
    /\ cur' = cur + 1
    /\ \/ \* a key is missing: skipped and counted
          /\ ~all(keys)
          /\ skipped' = [skipped EXCEPT ![l] = @ + 1]
          /\ log' = IF skipped[l] + 1 <= MaxSkipWarnings
                    THEN log \cup {<<"Skipping record due to missing keys", l>>}
                    ELSE log
          /\ UNCHANGED <<db, committed, counts, faults>>
       \/ \* float() of a measure raises ValueError: the except of the loop logs
          \* it and the loop goes on
          /\ all(keys)
          /\ raises
          /\ log' = log \cup {<<"Error processing record", l>>}
          /\ UNCHANGED <<db, committed, counts, skipped, faults>>
       \/ \* inserted, and committed when a batch is full
          /\ all(keys)
          /\ ~raises
          /\ db' = [db EXCEPT ![l] = Append(@, row)]
          /\ counts' = [counts EXCEPT ![l] = @ + 1]
          /\ committed' = IF BatchFull(counts[l] + 1, batch) THEN Commit(db') ELSE committed
          /\ UNCHANGED <<skipped, faults, log>>
       \/ \* the INSERT raises: the except of the loop logs it and the loop goes on
          /\ all(keys)
          /\ ~raises
          /\ faults < MaxFaults
          /\ faults' = faults + 1
          /\ log' = log \cup {<<"Error processing record", l>>}
          /\ UNCHANGED <<db, committed, counts, skipped>>
    /\ UNCHANGED <<pc, connected, df_raw, df>>

\* the end of a fact loader: the final commit, the counts are logged and
\* load_fact_tables calls the next loader; an Error of the commit is caught by
\* load_fact_tables
FactFinish(loop, l, n, next, nextl) ==
    /\ pc = loop
    /\ cur > n
    /\ \/ /\ committed' = Commit(db)
          /\ log' = log \cup {<<"Loaded records into fact table", l>>,
                               <<"fact table loading complete", l>>,
                               <<"Loading fact table...", nextl>>}
          /\ pc' = next
          /\ UNCHANGED faults
       \/ /\ faults < MaxFaults
          /\ faults' = faults + 1
          /\ log' = log \cup {Msg("Error loading fact tables")}
          /\ pc' = "close"
          /\ UNCHANGED committed
    /\ UNCHANGED <<connected, df_raw, df, db, cur, counts, skipped>>

\* load_item_fact_table
ItemStart == FactStart("load_item_fact_table", "item_loop")

ItemRow ==
    /\ cur \in DOMAIN df
    /\ FactRow("item_loop", "Item", Len(df), ItemKeys(df[cur], db),
               ~IsNumeric(df[cur].Discount), ItemFact(df[cur], db), ItemBatch)

ItemFinish ==
    FactFinish("item_loop", "Item", Len(df), "load_orders_fact_table", "Orders")

\* load_orders_fact_table
OrdersStart == FactStart("load_orders_fact_table", "orders_loop")

OrdersRow ==
    /\ cur \in DOMAIN order_groups(df)
    /\ FactRow("orders_loop", "Orders", Len(order_groups(df)),
               OrdersKeys(order_data(df, order_groups(df)[cur][1])[1], db),
               \E r \in Range(order_data(df, order_groups(df)[cur][1])) :
                    ~IsNumeric(r.Discount),
               OrdersFact(order_data(df, order_groups(df)[cur][1]), db), OrdersBatch)

OrdersFinish ==
    FactFinish("orders_loop", "Orders", Len(order_groups(df)),
               "load_order_m_fact_table", "OrderM")

\* load_order_m_fact_table
\* the pass that fills monthly_lost_value is outside the loop's try: float() of
\* a text Discount raises ValueError there, no Error of the datastore, so nothing
\* catches it and the run ends
MonthlyLostValueRaises(rows) == \E i \in DOMAIN rows : ~IsNumeric(rows[i].Discount)

OrderMStart ==
    \/ /\ ~MonthlyLostValueRaises(df)
       /\ FactStart("load_order_m_fact_table", "order_m_loop")
    \/ /\ MonthlyLostValueRaises(df)
       /\ pc = "load_order_m_fact_table"
       /\ \/ /\ pc' = "crashed"
             /\ UNCHANGED <<faults, log>>
          \/ /\ faults < MaxFaults
             /\ faults' = faults + 1
             /\ log' = log \cup {Msg("Error loading fact tables")}
             /\ pc' = "close"
       /\ UNCHANGED <<connected, df_raw, df, db, committed, cur, counts, skipped>>

OrderMRow ==
    /\ cur \in DOMAIN order_m_groups(df)
    /\ FactRow("order_m_loop", "OrderM", Len(order_m_groups(df)),
               OrderMKeys(order_m_groups(df)[cur], db), FALSE,
               OrderMFact(df, order_m_groups(df)[cur], db), OrderMBatch)

OrderMFinish ==
    FactFinish("order_m_loop", "OrderM", Len(order_m_groups(df)),
               "load_product_performance_fact_table", "ProductPerformance")

\* load_product_performance_fact_table: the keys are read, the data grouped and
\* the running totals computed; then the log call before the insert loop raises,
\* no Error of the datastore, so nothing catches it and the run ends there
ProductPerformanceStart ==
    /\ pc = "load_product_performance_fact_table"
    /\ \/ /\ CumulativeProfitLogRaises(performance_grouped_data(df))
          /\ pc' = "crashed"
          /\ UNCHANGED <<faults, log>>
       \/ /\ faults < MaxFaults
          /\ faults' = faults + 1
          /\ log' = log \cup {Msg("Error loading fact tables")}
          /\ pc' = "close"
    /\ UNCHANGED <<connected, df_raw, df, db, committed, cur, counts, skipped>>

\* connection.close() and the last log
Close ==
    /\ pc = "close"
    /\ connected' = FALSE
    /\ log' = log \cup {Msg("ETL process completed successfully")}
    /\ pc' = "done"
    /\ UNCHANGED <<df_raw, df, db, committed, cur, counts, skipped, faults>>

Init ==
    /\ pc = "connect"
    /\ df_raw = <<>>
    /\ Idle

Next ==
    \/ Connect \/ LoadData \/ Preprocess
    \/ LoadDimensionTables
    \/ LoadCalendarMonth \/ LoadCalendar \/ LoadCustomer
    \/ LoadRegion \/ LoadState \/ LoadLocation
    \/ LoadShipping \/ LoadCategory \/ LoadProduct
    \/ LoadFactTables
    \/ ItemStart \/ ItemRow \/ ItemFinish
    \/ OrdersStart \/ OrdersRow \/ OrdersFinish
    \/ OrderMStart \/ OrderMRow \/ OrderMFinish
    \/ ProductPerformanceStart
    \/ Close

Spec == Init /\ [][Next]_vars

-----------------------------------------------------------------------------
(* The load of a dataset large enough for a batch of OrderM rows to fill *)

BatchRows == 54

\* cleaned data of BatchRows orders of one line item, two to a place, one in
\* December 2016 and one in January 2017: BatchRows (year, month, state) groups
BatchData ==
    [i \in 1..BatchRows |-> MkRow(i, 1, 1, 1 + ((i - 1) \div 2), 1 + 2 * (i % 2), 2)]

\* the same, the Discount of the first line item being text
BatchDataText == [BatchData EXCEPT ![1].Discount = NonNumeric]

InitBatch ==
    /\ pc = "load_dimension_tables"
    /\ df_raw = <<>>
    /\ df \in {BatchData, BatchDataText}
    /\ connected = TRUE
    /\ db = [t \in Tables |-> <<>>]
    /\ committed = [t \in Tables |-> 0]
    /\ cur = 0
    /\ counts = [l \in Loaders |-> 0]
    /\ skipped = [l \in Loaders |-> 0]
    /\ faults = MaxFaults
    /\ log = {}

\* the run from the dimension stage on, no operation of the datastore failing
NextBatch ==
    \/ LoadDimensionTables
    \/ LoadCalendarMonth \/ LoadCalendar \/ LoadCustomer
    \/ LoadRegion \/ LoadState \/ LoadLocation
    \/ LoadShipping \/ LoadCategory \/ LoadProduct
    \/ LoadFactTables
    \/ ItemStart \/ ItemRow \/ ItemFinish
    \/ OrdersStart \/ OrdersRow \/ OrdersFinish
    \/ OrderMStart \/ OrderMRow \/ OrderMFinish
    \/ ProductPerformanceStart

SpecBatch == InitBatch /\ [][NextBatch]_vars

-----------------------------------------------------------------------------
(* The dimension stage on its own, over rows that vary in the level keys *)

\* rows whose Sub-Category, Country, City and State vary: three sub-categories,
\* two countries, a city of one name in two states
MappingPool ==
    { [MkRow(1, k[1], 1, k[4], 1, 2) EXCEPT !.Country = k[2], !.City = k[3]] :
        k \in {<<1, 1, 1, 1>>, <<2, 1, 1, 2>>, <<1, 2, 2, 2>>, <<2, 2, 2, 1>>, <<3, 1, 1, 1>>} }

InitMappings ==
    /\ pc = "load_dimension_tables"
    /\ df_raw = <<>>
    /\ df \in SeqsUpTo(MappingPool, MaxRows)
    /\ connected = TRUE
    /\ db = [t \in Tables |-> <<>>]
    /\ committed = [t \in Tables |-> 0]
    /\ cur = 0
    /\ counts = [l \in Loaders |-> 0]
    /\ skipped = [l \in Loaders |-> 0]
    /\ faults = 0
    /\ log = {}

NextMappings ==
    \/ LoadDimensionTables
    \/ LoadCalendarMonth \/ LoadCalendar \/ LoadCustomer
    \/ LoadRegion \/ LoadState \/ LoadLocation
    \/ LoadShipping \/ LoadCategory \/ LoadProduct

SpecMappings == InitMappings /\ [][NextMappings]_vars



-----------------------------------------------------------------------------
(* Properties of the deduplicator *)

\* preprocess_merge_duplicate_products has returned
Cleaned == pc \notin {"connect", "load_data", "preprocess"}

RawKeys == {KeyOf(df_raw[i]) : i \in DOMAIN df_raw}

RawGroup(key) == SelectSeq(df_raw, LAMBDA r : KeyOf(r) = key)

CleanedGroup(key) == SelectSeq(df, LAMBDA r : KeyOf(r) = key)

MergedKeys == {k \in RawKeys : Len(RawGroup(k)) > 1}

\* C1: the cleaned data has exactly one row per distinct (Order ID, Product ID)
\* pair of the raw data: as many rows as distinct pairs, no pair twice.
C1_OneRowPerPair ==
    Cleaned =>
        /\ Len(df) = Cardinality(RawKeys)
        /\ \A i, j \in DOMAIN df : KeyOf(df[i]) = KeyOf(df[j]) => i = j

\* a raw input with a duplicated pair and a pair of its own has been cleaned
C1_Witness ==
    /\ Cleaned
    /\ MergedKeys # {}
    /\ RawKeys # MergedKeys
    /\ Len(df) < Len(df_raw)

\* C2: the sums of Quantity, Sales and Profit over the cleaned rows equal the
\* sums over the raw rows.
C2_MeasuresConserved ==
    Cleaned =>
        /\ ISum(Column(df, "Quantity")) = ISum(Column(df_raw, "Quantity"))
        /\ ISum(Column(df, "Sales")) = ISum(Column(df_raw, "Sales"))
        /\ ISum(Column(df, "Profit")) = ISum(Column(df_raw, "Profit"))

\* rows were merged, and their measures differ
C2_Witness ==
    /\ Cleaned
    /\ \E k \in MergedKeys :
          /\ RawGroup(k)[1].Sales # RawGroup(k)[2].Sales
          /\ RawGroup(k)[1].Profit # RawGroup(k)[2].Profit
          /\ RawGroup(k)[1].Quantity # RawGroup(k)[2].Quantity

\* sum(di * qi) / sum(qi) of a group: the products summed first, then divided
QuantityWeightedAverage(rows) ==
    FDivInt(FSum([i \in DOMAIN rows |-> FMulInt(rows[i].Discount, rows[i].Quantity)]),
            ISum(Column(rows, "Quantity")))

\* C3: the Discount of the row merged from a group of more than one row whose
\* total quantity is not zero is sum(di * qi) / sum(qi).
C3_WeightedDiscount ==
    Cleaned =>
        \A k \in MergedKeys :
            ISum(Column(RawGroup(k), "Quantity")) # 0 =>
                /\ Len(CleanedGroup(k)) = 1
                /\ CleanedGroup(k)[1].Discount = QuantityWeightedAverage(RawGroup(k))

\* a group with different discounts and different quantities was merged into a
\* discount that is neither of them
C3_Witness ==
    /\ Cleaned
    /\ \E k \in MergedKeys :
          /\ ISum(Column(RawGroup(k), "Quantity")) # 0
          /\ RawGroup(k)[1].Discount # RawGroup(k)[2].Discount
          /\ RawGroup(k)[1].Quantity # RawGroup(k)[2].Quantity
          /\ \A i \in DOMAIN RawGroup(k) : CleanedGroup(k)[1].Discount # RawGroup(k)[i].Discount

\* C4: a merged group whose total quantity is 0 gets a defined (finite) Discount:
\* the division by the total quantity is guarded.
C4_ZeroQuantityGuarded ==
    Cleaned =>
        \A k \in MergedKeys :
            ISum(Column(RawGroup(k), "Quantity")) = 0 =>
                \A i \in DOMAIN CleanedGroup(k) : IsFinite(CleanedGroup(k)[i].Discount)


-----------------------------------------------------------------------------
(* Properties of the fact loaders and of the run *)

LoopOf(l) ==
    CASE l = "Item" -> "item_loop"
      [] l = "Orders" -> "orders_loop"
      [] l = "OrderM" -> "order_m_loop"
      [] l = "ProductPerformance" -> "product_performance_loop"

\* the candidate rows of a fact table's grain: cleaned line items, order ids,
\* (year, month, state), (category, state, year, month)
Grain(l) ==
    CASE l = "Item" -> [i \in DOMAIN df |-> KeyOf(df[i])]
      [] l = "Orders" -> SortKeys({<<df[i].OrderID>> : i \in DOMAIN df})
      [] l = "OrderM" -> SortKeys({MonthStateOf(df[i]) : i \in DOMAIN df})
      [] l = "ProductPerformance" -> SortKeys({PerformanceKeyOf(df[i]) : i \in DOMAIN df})

\* the first line item of a candidate
FirstItemOf(l, key) ==
    df[CHOOSE i \in DOMAIN df :
          /\ key = CASE l = "Item" -> KeyOf(df[i])
                     [] l = "Orders" -> <<df[i].OrderID>>
                     [] l = "OrderM" -> MonthStateOf(df[i])
                     [] l = "ProductPerformance" -> PerformanceKeyOf(df[i])
          /\ \A j \in 1..(i - 1) :
                key # CASE l = "Item" -> KeyOf(df[j])
                        [] l = "Orders" -> <<df[j].OrderID>>
                        [] l = "OrderM" -> MonthStateOf(df[j])
                        [] l = "ProductPerformance" -> PerformanceKeyOf(df[j])]

Ymd(s) == <<s[4], s[2], s[3]>>

\* a row of a dimension table carries this natural key
HasCustomer(code) == \E i \in DOMAIN db.Customer : db.Customer[i].customer_code = code
HasProduct(code) == \E i \in DOMAIN db.Product : db.Product[i].product_code = code
HasDay(day) == \E i \in DOMAIN db.Calendar : db.Calendar[i].full_date = day
HasMonth(y, m) ==
    \E i \in DOMAIN db.CalendarMonth :
        db.CalendarMonth[i].year_number = y /\ db.CalendarMonth[i].calendar_month_number = m
HasLocation(postal, city) ==
    \E i \in DOMAIN db.Location :
        db.Location[i].location_code = postal /\ db.Location[i].city_name = city
HasShipping(mode) == \E i \in DOMAIN db.Shipping : db.Shipping[i].ship_mode = mode
HasState(name) == \E i \in DOMAIN db.State : db.State[i].state_name = name
HasCategory(name) == \E i \in DOMAIN db.Category : db.Category[i].category_name = name
HasRegion(name) == \E i \in DOMAIN db.Region : db.Region[i].region_name = name

\* every dimension key the loader l requires for the candidate exists
Resolvable(l, key) ==
    LET r == FirstItemOf(l, key)
    IN  CASE l = "Item" ->
                /\ HasCustomer(r.CustomerID) /\ HasProduct(r.ProductID)
                /\ HasDay(Ymd(r.OrderDate)) /\ HasLocation(r.PostalCode, r.City)
          [] l = "Orders" ->
                /\ HasCustomer(r.CustomerID) /\ HasDay(Ymd(r.OrderDate))
                /\ HasDay(Ymd(r.ShipDate)) /\ HasLocation(r.PostalCode, r.City)
                /\ HasShipping(r.ShipMode)
          [] l = "OrderM" -> HasMonth(key[1], key[2]) /\ HasState(key[3])
          [] l = "ProductPerformance" ->
                HasCategory(key[1]) /\ HasState(key[2]) /\ HasMonth(key[3], key[4])

\* the foreign keys of a fact row are ids of rows of their dimension tables
KeysExist(l, row) ==
    CASE l = "Item" ->
            /\ row.customer_id \in DOMAIN db.Customer
            /\ row.product_id \in DOMAIN db.Product
            /\ row.calendar_id \in DOMAIN db.Calendar
            /\ row.location_id \in DOMAIN db.Location
      [] l = "Orders" ->
            /\ row.customer_id \in DOMAIN db.Customer
            /\ row.order_calendar_id \in DOMAIN db.Calendar
            /\ row.shipping_calendar_id \in DOMAIN db.Calendar
            /\ row.location_id \in DOMAIN db.Location
            /\ row.shipping_id \in DOMAIN db.Shipping
      [] l = "OrderM" ->
            /\ row.calendar_month_id \in DOMAIN db.CalendarMonth
            /\ row.state_id \in DOMAIN db.State
      [] l = "ProductPerformance" ->
            /\ row.category_id \in DOMAIN db.Category
            /\ row.state_id \in DOMAIN db.State
            /\ row.calendar_month_id \in DOMAIN db.CalendarMonth

\* the loader l is at a candidate
AtCandidate(l) == pc = LoopOf(l) /\ cur \in DOMAIN Grain(l)

\* C5: a fact loader inserts a row only for a candidate all of whose required
\* dimension keys exist, and the row carries existing keys; at a candidate with
\* a missing key it inserts nothing and adds exactly one to its skipped counter,
\* which nothing else changes.
C5_ResolveOrSkip ==
    [][\A l \in Loaders :
          /\ db'[l] # db[l] =>
                /\ AtCandidate(l) /\ Resolvable(l, Grain(l)[cur])
                /\ Len(db'[l]) = Len(db[l]) + 1
                /\ SubSeq(db'[l], 1, Len(db[l])) = db[l]
                /\ KeysExist(l, db'[l][Len(db'[l])])
                /\ skipped'[l] = skipped[l]
          /\ (AtCandidate(l) /\ cur' = cur + 1 /\ ~Resolvable(l, Grain(l)[cur])) =>
                db'[l] = db[l] /\ skipped'[l] = skipped[l] + 1
          /\ skipped'[l] # skipped[l] =>
                AtCandidate(l) /\ ~Resolvable(l, Grain(l)[cur])]_vars

\* a loader has inserted a candidate and skipped another
C5_Witness == \E l \in Loaders : counts[l] > 0 /\ skipped[l] > 0 /\ Len(db[l]) > 0

\* the loader l has finished: it logged its counts
Finished(l) == <<"Loaded records into fact table", l>> \in log

\* C6: when a fact loader finishes, the rows it inserted plus the rows it counted
\* as skipped are the candidates of its grain.
C6_SkipCounting ==
    \A l \in Loaders : Finished(l) => counts[l] + skipped[l] = Len(Grain(l))

Invoked(l) == <<"Loading fact table...", l>> \in log

RunEnded == pc \in {"done", "crashed"}

\* the monthly profit totals of (category, state), summed up to (year, month)
CumulativeProfit(key) ==
    ISum(Column(SelectSeq(df, LAMBDA r :
                    /\ r.Category = key[1] /\ r.State = key[2]
                    /\ \/ PerformanceKeyOf(r) = key
                       \/ TupleLess(PerformanceKeyOf(r), key)),
                "Profit"))

\* C7: once load_product_performance_fact_table has run in a run without a
\* datastore error, the ProductPerformance table holds, for every (category,
\* state, year, month) of the cleaned data, a row whose cumulative_profit is the
\* sum of the monthly profits of that (category, state) up to that month.
C7_CumulativeProfitWritten ==
    (RunEnded /\ Invoked("ProductPerformance") /\ faults = 0) =>
        \A k \in Range(Grain("ProductPerformance")) :
            \E i \in DOMAIN db.ProductPerformance :
                /\ KeysExist("ProductPerformance", db.ProductPerformance[i])
                /\ db.Category[db.ProductPerformance[i].category_id].category_name = k[1]
                /\ db.State[db.ProductPerformance[i].state_id].state_name = k[2]
                /\ db.CalendarMonth[db.ProductPerformance[i].calendar_month_id].year_number = k[3]
                /\ db.CalendarMonth[db.ProductPerformance[i].calendar_month_id].calendar_month_number = k[4]
                /\ db.ProductPerformance[i].cumulative_profit = CumulativeProfit(k)

DimensionFailed == Msg("Error loading dimension tables") \in log

FactStage ==
    {"load_fact_tables", "load_item_fact_table", "item_loop", "load_orders_fact_table",
     "orders_loop", "load_order_m_fact_table", "order_m_loop",
     "load_product_performance_fact_table"}

\* C8: after a dimension-loading step has failed the run does not go on: it is
\* never in the fact stage, nor closing, nor done.
C8_DimensionFailurePropagates ==
    DimensionFailed => pc \notin FactStage \cup {"close", "done"}

\* every row the dimension loaders insert for the cleaned data is in its table
DimensionsComplete ==
    \A i \in DOMAIN df :
        /\ HasMonth(Ymd(df[i].OrderDate)[1], Ymd(df[i].OrderDate)[2])
        /\ HasMonth(Ymd(df[i].ShipDate)[1], Ymd(df[i].ShipDate)[2])
        /\ HasDay(Ymd(df[i].OrderDate)) /\ HasDay(Ymd(df[i].ShipDate))
        /\ HasCustomer(df[i].CustomerID)
        /\ HasRegion(df[i].Region) /\ HasState(df[i].State)
        /\ HasLocation(df[i].PostalCode, df[i].City)
        /\ HasShipping(df[i].ShipMode)
        /\ HasCategory(df[i].Category) /\ HasProduct(df[i].ProductID)

DimensionsCommitted == \A t \in Range(DimOrder) : committed[t] = Len(db[t])

\* C9: a fact loader runs only with every dimension table fully inserted and
\* committed.
C9_TwoPhaseBarrier ==
    pc \in FactStage \ {"load_fact_tables"} => DimensionsComplete /\ DimensionsCommitted

\* C10: in a run that has ended and had entered the fact stage, every fact
\* loader was invoked, whether or not one before it failed.
C10_FactLoadIsolation ==
    (RunEnded /\ Invoked("Item")) => \A l \in Loaders : Invoked(l)

-----------------------------------------------------------------------------
(* Properties of connect() and of the run's outcome *)

ConnectFailed == Msg("Error connecting to MySQL") \in log

ReportedSuccessful == Msg("ETL process completed successfully") \in log

\* C11: after a connectivity error has been logged the run is aborted: no
\* dimension or fact load is attempted, the run does not go on to its end and it
\* is not reported as successful.
C11_ConnectivityFatal ==
    ConnectFailed =>
        /\ ~ReportedSuccessful
        /\ pc \notin {"close", "done"}
        /\ Msg("Loading dimension tables...") \notin log
        /\ \A l \in Loaders : ~Invoked(l)

FactStageError == Msg("Error loading fact tables") \in log

\* C12: a skipped or failing row never aborts a fact loader: in a run that has
\* ended without an error of the datastore in the fact stage, every fact loader
\* that was invoked has returned normally (it logged its counts), whatever text
\* the measures of its rows hold and whatever keys are missing.
C12_RowFailuresNeverAbort ==
    \A l \in Loaders :
        (RunEnded /\ Invoked(l) /\ ~FactStageError) => Finished(l)

\* C13: every foreign key of every row of a fact table is the primary key of a
\* row of the dimension table it refers to, throughout the run and at its end.
C13_ReferentialCompleteness ==
    \A l \in Loaders : \A i \in DOMAIN db[l] : KeysExist(l, db[l][i])

\* a run has ended with rows in the Item, Orders and OrderM tables
C13_Witness ==
    RunEnded /\ Len(db.Item) > 0 /\ Len(db.Orders) > 0 /\ Len(db.OrderM) > 0

-----------------------------------------------------------------------------
(* Properties of create_level_mappings *)

\* where the value v comes first in the column s
FirstIndex(s, v) == CHOOSE i \in DOMAIN s : s[i] = v /\ \A j \in 1..(i - 1) : s[j] # v

\* v is the k-th distinct value of s in the order of first occurrence
RankOf(s, v) ==
    Cardinality({w \in Range(s) : FirstIndex(s, w) <= FirstIndex(s, v)})

SubCategories == Column(df, "SubCategory")
Countries == Column(df, "Country")
CityStates == [i \in DOMAIN df |-> <<df[i].City, df[i].State>>]

\* C14: each mapping of create_level_mappings gives the k-th distinct value, in
\* first-occurrence order, the id k, and so maps the distinct sub-categories,
\* countries and (city, state) pairs of the data one-to-one onto 1..N; the rows
\* of Location and Product carry these ids.
C14_LevelMappingsBijective ==
    /\ \A v \in Range(SubCategories) :
          sub_category_mapping(df, v) = RankOf(SubCategories, v)
    /\ \A v \in Range(Countries) : country_mapping(df, v) = RankOf(Countries, v)
    /\ \A v \in Range(CityStates) : city_mapping(df, v[1], v[2]) = RankOf(CityStates, v)
    /\ {sub_category_mapping(df, v) : v \in Range(SubCategories)}
          = 1..Cardinality(Range(SubCategories))
    /\ {country_mapping(df, v) : v \in Range(Countries)} = 1..Cardinality(Range(Countries))
    /\ {city_mapping(df, v[1], v[2]) : v \in Range(CityStates)}
          = 1..Cardinality(Range(CityStates))
    /\ \A i \in DOMAIN db.Product :
          db.Product[i].sub_category_id
             = RankOf(SubCategories, db.Product[i].sub_category_name)
    /\ \A i \in DOMAIN db.Location :
          /\ db.Location[i].country_id = RankOf(Countries, db.Location[i].country_name)
          /\ db.Location[i].city_id
                = RankOf(CityStates, <<db.Location[i].city_name, db.Location[i].state_name>>)

\* three sub-categories that first occur out of their sorted order, two
\* countries and three (city, state) pairs have been mapped and loaded
C14_Witness ==
    /\ Cardinality(Range(SubCategories)) = 3
    /\ df[1].SubCategory > df[2].SubCategory
    /\ Cardinality(Range(Countries)) = 2
    /\ Cardinality(Range(CityStates)) = 3
    /\ Len(db.Product) = 3
    /\ Len(db.Location) > 0

-----------------------------------------------------------------------------
(* Properties of the measures of the fact rows *)

\* sales / (1 - discount) - sales for a discount n/d below 1, as one fraction:
\* sales * n / (d - n); 0 for a discount of 1 or more
ExpectedLostValue(sales, discount) ==
    IF discount.n < discount.d
    THEN Fin(sales * discount.n, discount.d - discount.n)
    ELSE Fin(0, 1)

\* the exact sum of the expected lost values of the rows
RECURSIVE ExpectedLostValueSum(_)
ExpectedLostValueSum(rows) ==
    IF rows = <<>> THEN Fin(0, 1)
    ELSE FAdd(ExpectedLostValue(Head(rows).Sales, Head(rows).Discount),
              ExpectedLostValueSum(Tail(rows)))

ItemsOfOrder(order_id) == SelectSeq(df, LAMBDA r : r.OrderID = order_id)

\* C15: every row of Orders carries the sums of Sales, Quantity and Profit over
\* all cleaned line items of its order, and as lost_value_order the sum of their
\* per-item lost values.
C15_OrdersMeasures ==
    \A i \in DOMAIN db.Orders :
        LET row == db.Orders[i]
            items == ItemsOfOrder(row.order_code)
        IN  /\ row.sales_order = ISum(Column(items, "Sales"))
            /\ row.quantity_order = ISum(Column(items, "Quantity"))
            /\ row.profit_order = ISum(Column(items, "Profit"))
            /\ row.lost_value_order = ExpectedLostValueSum(items)

\* an Orders row of an order of two line items, one discounted below 1 and one
\* discounted in full
C15_Witness ==
    \E i \in DOMAIN db.Orders :
        LET items == ItemsOfOrder(db.Orders[i].order_code)
        IN  /\ Len(items) = 2
            /\ \E r \in Range(items) : r.Discount.n > 0 /\ r.Discount.n < r.Discount.d
            /\ \E r \in Range(items) : r.Discount.n >= r.Discount.d
            /\ db.Orders[i].lost_value_order.n > 0

\* a discount in [0, 1)
InUnitInterval(discount) ==
    discount.kind = "fin" /\ discount.n >= 0 /\ discount.n < discount.d

\* C16 (as amended): the lost_value of every Item row is sales / (1 - discount)
\* - sales for a discount below 1 and 0 for a discount of 1 or more, and it is not
\* negative when the discount is in [0, 1) and the sales amount is not negative.
C16_LostValue ==
    \A i \in DOMAIN db.Item :
        LET row == db.Item[i]
        IN  /\ row.lost_value = ExpectedLostValue(row.sales, row.discount)
            /\ (InUnitInterval(row.discount) /\ row.sales >= 0) => row.lost_value.n >= 0

\* Item holds a row discounted below 1 with a positive lost_value and a row
\* discounted in full with lost_value 0
C16_Witness ==
    /\ \E i \in DOMAIN db.Item :
          /\ db.Item[i].discount.n > 0 /\ InUnitInterval(db.Item[i].discount)
          /\ db.Item[i].sales > 0 /\ db.Item[i].lost_value.n > 0
    /\ \E i \in DOMAIN db.Item :
          db.Item[i].discount = Fin(1, 1) /\ db.Item[i].lost_value = Fin(0, 1)

\* C16 (as stated): the lost_value of an Item row is never negative when its
\* discount is in [0, 1), whatever its sales amount.
C16_LostValueNeverNegative ==
    \A i \in DOMAIN db.Item :
        InUnitInterval(db.Item[i].discount) => db.Item[i].lost_value.n >= 0

\* the (year, month, state) of a line item's order date
MonthState(r) == <<Ymd(r.OrderDate)[1], Ymd(r.OrderDate)[2], r.State>>

MonthStates == {MonthState(df[i]) : i \in DOMAIN df}

ItemsOfMonthState(key) == SelectSeq(df, LAMBDA r : MonthState(r) = key)

\* the (year, month, state) an OrderM row refers to
MonthStateOfFact(row) ==
    << db.CalendarMonth[row.calendar_month_id].year_number,
       db.CalendarMonth[row.calendar_month_id].calendar_month_number,
       db.State[row.state_id].state_name >>

\* C17: OrderM gets one candidate per distinct (year, month, state) of the
\* cleaned line items: no two of its rows are of the same key, each row is of a
\* key of the data and carries the sums of Sales, Quantity and Profit and the sum
\* of the per-item lost values over exactly the line items of its key, and a
\* loader that finished with nothing skipped or failed has a row for every key.
C17_OrderMMeasures ==
    /\ \A i \in DOMAIN db.OrderM :
          LET row == db.OrderM[i]
              items == ItemsOfMonthState(MonthStateOfFact(row))
          IN  /\ MonthStateOfFact(row) \in MonthStates
              /\ row.sales_month = ISum(Column(items, "Sales"))
              /\ row.quantity_month = ISum(Column(items, "Quantity"))
              /\ row.profit_month = ISum(Column(items, "Profit"))
              /\ row.lost_value_month = ExpectedLostValueSum(items)
    /\ \A i, j \in DOMAIN db.OrderM :
          MonthStateOfFact(db.OrderM[i]) = MonthStateOfFact(db.OrderM[j]) => i = j
    /\ (Finished("OrderM") /\ faults = 0) =>
          {MonthStateOfFact(db.OrderM[i]) : i \in DOMAIN db.OrderM} = MonthStates

\* OrderM holds the rows of two keys, each with a lost value that is not 0
C17_Witness ==
    /\ Finished("OrderM")
    /\ Len(db.OrderM) = 2
    /\ \A i \in DOMAIN db.OrderM : db.OrderM[i].lost_value_month.n > 0

\* every Discount of the CSV is a number
NumericData == \A i \in DOMAIN df_raw : IsNumeric(df_raw[i].Discount)

\* C18: a run over numeric data in which no operation of the datastore failed
\* ends with the connection closed, after all four fact loaders have returned
\* and their counts have been reported.
C18_RunToCompletion ==
    (RunEnded /\ faults = 0 /\ NumericData) =>
        /\ pc = "done"
        /\ ~connected
        /\ \A l \in Loaders : Invoked(l) /\ Finished(l)

-----------------------------------------------------------------------------
(* Properties of the fields the deduplicator leaves alone *)

\* the fields of a row that are no measure
CopiedFields ==
    {"OrderID", "ProductID", "CustomerID", "CustomerName", "Segment", "OrderDate",
     "ShipDate", "ShipMode", "Country", "Region", "State", "City", "PostalCode",
     "Category", "SubCategory", "ProductName"}

\* C19: every field of a merged row other than Quantity, Sales, Discount and
\* Profit is that of the first row of its (Order ID, Product ID) group in the
\* input order.
C19_MergedRowCopiesFirst ==
    Cleaned =>
        \A k \in MergedKeys :
            /\ Len(CleanedGroup(k)) = 1
            /\ \A f \in CopiedFields : CleanedGroup(k)[1][f] = RawGroup(k)[1][f]

\* a group whose first and last rows differ in a copied field has been merged
C19_Witness ==
    /\ Cleaned
    /\ \E k \in MergedKeys :
          RawGroup(k)[1].CustomerID # RawGroup(k)[Len(RawGroup(k))].CustomerID

\* C20: every raw row whose (Order ID, Product ID) pair occurs once is a row of
\* the cleaned data, with every field as it was.
C20_SingletonsUnchanged ==
    Cleaned =>
        \A i \in DOMAIN df_raw :
            Len(RawGroup(KeyOf(df_raw[i]))) = 1 => \E j \in DOMAIN df : df[j] = df_raw[i]

\* a raw input with a pair that occurs once and a duplicated pair has been
\* cleaned
C20_Witness ==
    /\ Cleaned
    /\ MergedKeys # {}
    /\ \E k \in RawKeys : Len(RawGroup(k)) = 1 /\ CleanedGroup(k) = RawGroup(k)

-----------------------------------------------------------------------------
(* Properties of the dimension loaders *)

\* C21: State rows are inserted only with every Region row of the data inserted
\* and committed, Location rows only with every State row inserted and
\* committed, Product rows only with every Category row inserted and committed;
\* and every State row carries the id of a Region row of its region's name,
\* every Location row the id of a State row of its state's name, every Product
\* row the id of a Category row of its category's name.
C21_DimensionSubOrder ==
    /\ db.State # <<>> =>
          /\ committed.Region = Len(db.Region)
          /\ \A i \in DOMAIN df : HasRegion(df[i].Region)
    /\ db.Location # <<>> =>
          /\ committed.State = Len(db.State)
          /\ \A i \in DOMAIN df : HasState(df[i].State)
    /\ db.Product # <<>> =>
          /\ committed.Category = Len(db.Category)
          /\ \A i \in DOMAIN df : HasCategory(df[i].Category)
    /\ \A i \in DOMAIN db.State :
          /\ db.State[i].region_id \in DOMAIN db.Region
          /\ db.Region[db.State[i].region_id].region_name = db.State[i].region_name
    /\ \A i \in DOMAIN db.Location :
          /\ db.Location[i].state_id \in DOMAIN db.State
          /\ db.State[db.Location[i].state_id].state_name = db.Location[i].state_name
    /\ \A i \in DOMAIN db.Product :
          /\ db.Product[i].category_id \in DOMAIN db.Category
          /\ db.Category[db.Product[i].category_id].category_name
                = db.Product[i].category_name

\* a dimension stage has ended without an error, with two rows or more in each
\* of State, Location and Product
C21_Witness ==
    /\ pc = "load_fact_tables"
    /\ faults = 0
    /\ Len(db.State) >= 2 /\ Len(db.Location) >= 2 /\ Len(db.Product) >= 2

\* the dates and the months of the cleaned data: order dates and ship dates
DistinctDates ==
    {Ymd(df[i].OrderDate) : i \in DOMAIN df} \cup {Ymd(df[i].ShipDate) : i \in DOMAIN df}

DistinctMonths == {<<d[1], d[2]>> : d \in DistinctDates}

Loaded(t) == <<"Loaded records into dimension", t>> \in log

\* C22: once CalendarMonth is loaded it holds exactly one row per distinct
\* (year, month) of the order and ship dates, and once Calendar is loaded it
\* holds exactly one row per distinct date; no Calendar row is inserted before
\* the CalendarMonth rows are committed, and the month_id of every Calendar row
\* is the id of the CalendarMonth row of the same year and month.
C22_CalendarRows ==
    /\ Loaded("CalendarMonth") =>
          /\ Len(db.CalendarMonth) = Cardinality(DistinctMonths)
          /\ {<<db.CalendarMonth[i].year_number, db.CalendarMonth[i].calendar_month_number>> :
                 i \in DOMAIN db.CalendarMonth} = DistinctMonths
    /\ Loaded("Calendar") =>
          /\ Len(db.Calendar) = Cardinality(DistinctDates)
          /\ {db.Calendar[i].full_date : i \in DOMAIN db.Calendar} = DistinctDates
    /\ db.Calendar # <<>> => committed.CalendarMonth = Len(db.CalendarMonth)
    /\ \A i \in DOMAIN db.Calendar :
          /\ db.Calendar[i].month_id \in DOMAIN db.CalendarMonth
          /\ db.CalendarMonth[db.Calendar[i].month_id].year_number
                = db.Calendar[i].full_date[1]
          /\ db.CalendarMonth[db.Calendar[i].month_id].calendar_month_number
                = db.Calendar[i].full_date[2]
          /\ \A j \in DOMAIN db.CalendarMonth :
                (/\ db.CalendarMonth[j].year_number = db.Calendar[i].full_date[1]
                 /\ db.CalendarMonth[j].calendar_month_number = db.Calendar[i].full_date[2])
                    => j = db.Calendar[i].month_id

\* Calendar is loaded from data of three dates in two months of two years, a
\* ship date being the order date of another order
C22_Witness ==
    /\ Loaded("Calendar")
    /\ Len(db.Calendar) = 3
    /\ Len(db.CalendarMonth) = 2
    /\ \E i, j \in DOMAIN df : df[i].ShipDate = df[j].OrderDate

-----------------------------------------------------------------------------
(* Properties of the Orders loader's representative row *)

\* the distinct order ids of the cleaned data
OrderIds == {df[i].OrderID : i \in DOMAIN df}

\* the keys of an Orders row are those of this line item
KeysOfItem(row, item) ==
    /\ db.Customer[row.customer_id].customer_code = item.CustomerID
    /\ db.Calendar[row.order_calendar_id].full_date = Ymd(item.OrderDate)
    /\ db.Calendar[row.shipping_calendar_id].full_date = Ymd(item.ShipDate)
    /\ db.Location[row.location_id].location_code = item.PostalCode
    /\ db.Location[row.location_id].city_name = item.City
    /\ db.Shipping[row.shipping_id].ship_mode = item.ShipMode

\* C23: the customer, order date, ship date, location and ship mode keys of an
\* Orders row are all those of one line item, the first of its order in the
\* cleaned data, and the loader visits exactly one candidate per distinct order
\* id: no two rows of an order, and as many turns of the loop as order ids.
C23_RepresentativeRow ==
    /\ \A i \in DOMAIN db.Orders :
          /\ db.Orders[i].order_code \in OrderIds
          /\ KeysOfItem(db.Orders[i], FirstItemOf("Orders", <<db.Orders[i].order_code>>))
    /\ \A i, j \in DOMAIN db.Orders :
          db.Orders[i].order_code = db.Orders[j].order_code => i = j
    /\ pc = "orders_loop" => cur - 1 <= Cardinality(OrderIds)
    /\ Finished("Orders") =>
          Len(db.Orders) + skipped.Orders <= Cardinality(OrderIds)
    /\ (Finished("Orders") /\ faults = 0 /\ NumericData) =>
          Len(db.Orders) + skipped.Orders = Cardinality(OrderIds)

\* an Orders row of an order whose second line item has another customer,
\* other dates, another place and another ship mode than its first
C23_Witness ==
    \E i \in DOMAIN db.Orders : \E a, b \in DOMAIN df :
        /\ a < b
        /\ df[a].OrderID = db.Orders[i].order_code
        /\ df[b].OrderID = db.Orders[i].order_code
        /\ \A c \in 1..(a - 1) : df[c].OrderID # df[a].OrderID
        /\ df[a].CustomerID # df[b].CustomerID
        /\ df[a].OrderDate # df[b].OrderDate
        /\ df[a].ShipDate # df[b].ShipDate
        /\ df[a].City # df[b].City
        /\ df[a].ShipMode # df[b].ShipMode

-----------------------------------------------------------------------------
(* Properties of the fact loaders' commits *)

\* the batch size of each fact loader
BatchSizeOf(l) ==
    CASE l = "Item" -> 500
      [] l = "Orders" -> 200
      [] l = "OrderM" -> 50
      [] l = "ProductPerformance" -> 50

\* C24: inside a fact loader's loop a commit is issued only with an insert that
\* brings the count of successful inserts to a positive multiple of the batch
\* size (500 Item, 200 Orders, 50 OrderM and ProductPerformance), and with every
\* such insert; an insert that does not fill a batch commits nothing; and when
\* the loader has returned every row it inserted is committed.
C24_BatchedCommit ==
    [][\A l \in Loaders :
          /\ (pc = LoopOf(l) /\ pc' = pc /\ committed' # committed) =>
                /\ Len(db'[l]) = Len(db[l]) + 1
                /\ counts'[l] = counts[l] + 1
                /\ counts'[l] > 0
                /\ counts'[l] % BatchSizeOf(l) = 0
          /\ (pc = LoopOf(l) /\ pc' = pc /\ counts'[l] = counts[l] + 1) =>
                IF counts'[l] % BatchSizeOf(l) = 0
                THEN committed'[l] = Len(db'[l])
                ELSE committed' = committed
          /\ <<"Loaded records into fact table", l>> \in log' =>
                committed'[l] = Len(db'[l])]_vars

\* the OrderM loader is in its loop after a full batch of 50 inserts was
\* committed, with two inserts more that are not
C24_Witness ==
    /\ pc = "order_m_loop"
    /\ counts.OrderM = 52
    /\ Len(db.OrderM) = 52
    /\ committed.OrderM = 50
    /\ Finished("Item") /\ committed.Item = Len(db.Item) /\ Len(db.Item) > 50

-----------------------------------------------------------------------------
(* Properties of the run's last log *)

\* C25: 'ETL process completed successfully' is logged only after a run in
\* which no stage was skipped for want of a connection, no stage ended in a
\* logged error of the datastore, and all four fact loaders returned.
C25_SuccessMeansLoaded ==
    ReportedSuccessful =>
        /\ ~DimensionFailed
        /\ ~FactStageError
        /\ DimensionsComplete
        /\ \A l \in Loaders : Finished(l)

-----------------------------------------------------------------------------
(* Properties of the Item rows' product *)

\* the Product row is the one created from this line item's tuple
ProductOfItem(product, item) ==
    /\ product.product_code = item.ProductID
    /\ product.product_name = item.ProductName
    /\ product.category_name = item.Category
    /\ product.sub_category_name = item.SubCategory

\* C26: the Item row inserted for a line item references the Product row that
\* was created from that line item's own (Product ID, Product Name, Category,
\* Sub-Category).
C26_ItemProductOfOwnTuple ==
    [][(pc = "item_loop" /\ Len(db'.Item) = Len(db.Item) + 1) =>
          /\ db'.Item[Len(db'.Item)].product_id \in DOMAIN db.Product
          /\ ProductOfItem(db.Product[db'.Item[Len(db'.Item)].product_id], df[cur])]_vars

-----------------------------------------------------------------------------
(* Properties of a run whose dimension stage succeeded *)

DimensionsLoaded == Msg("All dimension tables loaded successfully!") \in log

\* the fact loader l has returned and its table holds one row per candidate
OneRowPerCandidate(l) ==
    /\ Len(db[l]) = Len(Grain(l))
    /\ l = "Item" => \A i \in DOMAIN df : db.Item[i].order_code = df[i].OrderID
    /\ l = "Orders" => {db.Orders[i].order_code : i \in DOMAIN db.Orders} = OrderIds
    /\ l = "OrderM" => {MonthStateOfFact(db.OrderM[i]) : i \in DOMAIN db.OrderM} = MonthStates

-----------------------------------------------------------------------------
(* Properties across the Item and Orders tables *)

\* the Item rows of an order
ItemRowsOfOrder(order_code) == SelectSeq(db.Item, LAMBDA r : r.order_code = order_code)

\* C28: the sales, quantity and profit of every Orders row are the sums of the
\* sales, quantity and profit of the Item rows of its order code.
C28_OrdersSumItemRows ==
    \A i \in DOMAIN db.Orders :
        LET row == db.Orders[i]
            items == ItemRowsOfOrder(row.order_code)
        IN  /\ row.sales_order = ISum(Column(items, "sales"))
            /\ row.quantity_order = ISum(Column(items, "quantity"))
            /\ row.profit_order = ISum(Column(items, "profit"))

-----------------------------------------------------------------------------
(* Properties of the order of the cleaned rows *)

\* where the (Order ID, Product ID) pair of a row comes first in the raw input
FirstOccurrence(row) == FirstIndex([i \in DOMAIN df_raw |-> KeyOf(df_raw[i])], KeyOf(row))

\* C29: the cleaned rows are in the order in which their (Order ID, Product ID)
\* pairs first occur in the raw input.
C29_DedupPreservesOrder ==
    Cleaned =>
        \A i, j \in DOMAIN df : i < j => FirstOccurrence(df[i]) < FirstOccurrence(df[j])

=============================================================================
